---- MODULE Spec2Model ----
(***************************************************************************)
(* A model of the PDF microservice: the two HTTP handlers of               *)
(* app/api/api_pdf.py and the three methods of FileService                 *)
(* (app/services/file_service.py).                                         *)
(*                                                                         *)
(* Two worker processes serve one call each and share one temp directory,  *)
(* fs.  A worker is interleaved with the other one wherever it creates a   *)
(* temp file or waits for an external process; the code between two such   *)
(* points, the unwinding through except/finally included, is one step.     *)
(* External tools (gs, qpdf) are processes whose exit code, stderr and     *)
(* output are chosen by the environment.  A tool need not ever exit: only  *)
(* the timeout of subprocess.run / communicate is certain to end a wait,   *)
(* which FairSpec states by giving fairness to every step but the exits.   *)
(***************************************************************************)
EXTENDS Integers, Sequences, FiniteSets, TLC

\* Bounds of the model: the random names tempfile can draw for one suffix,
\* and the longest upload list of a merge request.
NumTokens == 2
MaxFiles == 2

\* The worker processes (two requests in flight at once).
Workers == {1, 2}
Tokens == 1..NumTokens

\* A temp-file path is <<token, suffix>>; None is Python's None.
None == <<0, "">>

PDF == "application/pdf"
ContentTypes == {PDF, "text/plain"}
Qualities == {"extreme", "normal", "low"}
Presets == {"screen", "ebook", "printer"}
\* Byte buffers are sequences of strings; <<>> is the empty buffer.
Uploads == {<<>>, <<"a">>}
\* The upload lists of a merge request of n files: n different files, and a
\* list with an empty file followed by equal ones.
UploadLists(n) ==
    {[i \in 1..n |-> <<"f" \o ToString(i)>>],
     [i \in 1..n |-> IF i = 1 THEN <<>> ELSE <<"a">>]}
Returncodes == {0, 1}
Stderrs == {"", "err"}

VARIABLES
    fs,                    \* temp directory: path -> [owner, data]
    pc,                    \* position of each worker
    endpoint,              \* "compress", "merge", "buffer" or "" (not started)
    quality,               \* the quality form field (buffer: the preset argument)
    uploads,               \* the byte buffers read from the upload(s)
    input_path,            \* compress_pdf_tmp local
    input_paths,           \* merge_pdf local
    output_path,           \* compress_pdf_tmp / merge_pdf local
    output_compress_path,  \* compress_pdf_tmp local
    proc,                  \* the command line of the running child process
    exc,                   \* exception raised by the service method
    ret,                   \* bytes returned by the service method
    calls,                 \* the child processes of the call so far, in order
    response               \* HTTP response of the handler

vars == <<fs, pc, endpoint, quality, uploads, input_path, input_paths, output_path,
          output_compress_path, proc, exc, ret, calls, response>>

locals == <<input_path, input_paths, output_path, output_compress_path>>
request == <<endpoint, quality, uploads>>

----------------------------------------------------------------------------
\* Pure helpers

accepted_quality_swapped(q) ==
    CASE q = "extreme" -> "printer"
      [] q = "normal" -> "ebook"
      [] q = "low" -> "screen"

accepted_quality(q) ==
    CASE q = "extreme" -> "screen"
      [] q = "normal" -> "ebook"
      [] q = "low" -> "printer"

\* match quality: <<mono, colour, grey>>, with the defaults for any other value
image_quality(preset) ==
    CASE preset = "printer" -> <<600, 150, 150>>
      [] preset = "ebook" -> <<300, 96, 96>>
      [] preset = "screen" -> <<150, 72, 72>>
      [] OTHER -> <<300, 96, 96>>

NoCmd == [tool |-> "", preset |-> "", mono |-> 0, color |-> 0, gray |-> 0,
          inputs |-> <<>>, output |-> None]

gs_cmd(preset, in, out) ==
    [tool |-> "gs", preset |-> preset,
     mono |-> image_quality(preset)[1],
     color |-> image_quality(preset)[2],
     gray |-> image_quality(preset)[3],
     inputs |-> <<in>>, output |-> out]

gs_buffer_cmd(preset) ==
    [NoCmd EXCEPT !.tool = "gs", !.preset = preset]

qpdf_cmd(in, out) ==
    [NoCmd EXCEPT !.tool = "qpdf", !.inputs = <<in>>, !.output = out]

qpdf_merge_cmd(ins, out) ==
    [NoCmd EXCEPT !.tool = "qpdf", !.inputs = ins, !.output = out]

PrependPath(paths, p) == <<p>> \o paths

\* input_paths.append(input_file.name)
AppendPath(paths, p) == Append(paths, p)

\* What the tools write when they succeed: a function of what they read.
Gs(preset, data) == <<"gs", preset>> \o data
Qpdf(data) == <<"qpdf">> \o data
RECURSIVE Pages(_)
Pages(datas) ==
    IF datas = <<>> THEN <<>> ELSE <<"page">> \o Head(datas) \o Pages(Tail(datas))
QpdfMerge(datas) == <<"qpdf">> \o Pages(datas)

\* Exceptions and responses
NoExc == [raised |-> FALSE, msg |-> ""]
RuntimeError(msg) == [raised |-> TRUE, msg |-> msg]
TimeoutExpiredStr == "Command timed out after 60 seconds"
OSErrorStr == "[Errno 28] No space left on device"

NoResponse == [status |-> 0, detail |-> "", body |-> <<>>, quality_level |-> ""]
\* str() of an HTTPException
HTTPExceptionStr(status, detail) == ToString(status) \o ": " \o detail
HTTPError(status, detail) == [NoResponse EXCEPT !.status = status, !.detail = detail]
\* except Exception as e: raise HTTPException(status_code=500, detail=str(e))
HandlerExcept(str) == HTTPError(500, str)
\* a raise HTTPException(status, detail) inside the handler's try block
HandlerRaise(status, detail) == HandlerExcept(HTTPExceptionStr(status, detail))

FileName(i) == "file" \o ToString(i) \o ".pdf"

TimeoutUnset(w) == FALSE

\* subprocess.run(..., timeout=60), communicate(timeout=60): the timer is set
TimeoutArmed(w) == pc[w] \in {"c_gs", "c_qpdf", "m_qpdf", "b_gs"}

FailedIgnored(rc) == FALSE

\* returncode != 0
Failed(rc) == rc # 0

\* How a child process ended, kept in calls: by its exit code, whatever the
\* caller makes of it.
ExitStatus(rc) == IF rc = 0 THEN "ok" ELSE "fail"

EmptyUnchecked(data) == FALSE

\* if not compressed_file / if not merged_file / if not gs_output
Empty(data) == data = <<>>

NamedTemporaryFileNoExcl(suffix) == {<<t, suffix>> : t \in Tokens}

\* The names tempfile may return for a suffix: it opens with O_EXCL and draws
\* again while the name exists.
NamedTemporaryFile(suffix) == {<<t, suffix>> : t \in Tokens} \ DOMAIN fs

Created(f, w, p, data) == (p :> [owner |-> w, data |-> data]) @@ f
\* a tool writes its output file (and creates it when it is not there)
Written(f, w, p, data) ==
    IF p \in DOMAIN f THEN [f EXCEPT ![p].data = data] ELSE Created(f, w, p, data)
\* a tool can read its input files (one that cannot exits non-zero)
Readable(f, paths) == \A i \in 1..Len(paths) : paths[i] \in DOMAIN f
CanExit(f, cmd, rc) == rc = 0 => Readable(f, cmd.inputs)
\* if p and path.exists(p): unlink(p), for every p of paths (the unlink of a
\* file the process created itself is taken to succeed)
Unlinked(f, paths) ==
    [q \in DOMAIN f \ {paths[i] : i \in 1..Len(paths)} |-> f[q]]

Contents(f, paths) == [i \in 1..Len(paths) |-> f[paths[i]].data]

compress_cleanup_input_only(w) == <<input_path[w]>>

\* finally: for file_path in (input_path, output_path, output_compress_path)
compress_cleanup(w) == <<input_path[w], output_path[w], output_compress_path[w]>>

\* finally: for p in input_paths + ([output_path] if output_path else [])
merge_cleanup(w) ==
    input_paths[w] \o (IF output_path[w] # None THEN <<output_path[w]>> ELSE <<>>)

\* calls[w] keeps, for each child process of the call, the tool, how it ended
\* ("run" while it has not) and what it wrote.
Call(tool) == [tool |-> tool, st |-> "run", out |-> <<>>]
EndOf(cs, st, out) == [cs EXCEPT ![Len(cs)].st = st, ![Len(cs)].out = out]
Started(w, cmd) ==
    /\ proc' = [proc EXCEPT ![w] = cmd]
    /\ calls' = [calls EXCEPT ![w] = Append(@, Call(cmd.tool))]
Ended(w, st, out) ==
    /\ proc' = [proc EXCEPT ![w] = NoCmd]
    /\ calls' = [calls EXCEPT ![w] = EndOf(@, st, out)]

\* The service method is left, by return or raise: its finally block has run
\* on the directory f and its locals are gone.
Leave(w, f, cleanup, e, r, next) ==
    /\ fs' = Unlinked(f, cleanup)
    /\ exc' = [exc EXCEPT ![w] = e]
    /\ ret' = [ret EXCEPT ![w] = r]
    /\ input_path' = [input_path EXCEPT ![w] = None]
    /\ input_paths' = [input_paths EXCEPT ![w] = <<>>]
    /\ output_path' = [output_path EXCEPT ![w] = None]
    /\ output_compress_path' = [output_compress_path EXCEPT ![w] = None]
    /\ pc' = [pc EXCEPT ![w] = next]

----------------------------------------------------------------------------
Init ==
    /\ fs = <<>>
    /\ pc = [w \in Workers |-> "idle"]
    /\ endpoint = [w \in Workers |-> ""]
    /\ quality = [w \in Workers |-> ""]
    /\ uploads = [w \in Workers |-> <<>>]
    /\ input_path = [w \in Workers |-> None]
    /\ input_paths = [w \in Workers |-> <<>>]
    /\ output_path = [w \in Workers |-> None]
    /\ output_compress_path = [w \in Workers |-> None]
    /\ proc = [w \in Workers |-> NoCmd]
    /\ exc = [w \in Workers |-> NoExc]
    /\ ret = [w \in Workers |-> <<>>]
    /\ calls = [w \in Workers |-> <<>>]
    /\ response = [w \in Workers |-> NoResponse]

----------------------------------------------------------------------------
\* POST /pdf/compress

\* the content-type check, then await file.read()
pdf_compressor(w) ==
    /\ pc[w] = "idle"
    /\ \E ct \in ContentTypes, q \in Qualities :
        /\ endpoint' = [endpoint EXCEPT ![w] = "compress"]
        /\ quality' = [quality EXCEPT ![w] = q]
        /\ IF ct # PDF
           THEN /\ response' = [response EXCEPT ![w] =
                        HandlerRaise(400, "File type is incorrect")]
                /\ pc' = [pc EXCEPT ![w] = "done"]
                /\ UNCHANGED uploads
           ELSE /\ \E pdf_bytes \in Uploads :
                        uploads' = [uploads EXCEPT ![w] = <<pdf_bytes>>]
                /\ pc' = [pc EXCEPT ![w] = "c_input"]
                /\ UNCHANGED response
    /\ UNCHANGED <<fs, locals, proc, exc, ret, calls>>

CompressError(msg) == RuntimeError("Unexpected error: " \o msg)

\* with NamedTemporaryFile(suffix=".pdf") as input_file: write; input_path = name
compress_input(w) ==
    /\ pc[w] = "c_input"
    /\ \/ /\ Leave(w, fs, compress_cleanup(w), CompressError(OSErrorStr), <<>>, "c_return")
       \/ \E p \in NamedTemporaryFile(".pdf") :
            \/ Leave(w, Created(fs, w, p, <<>>), compress_cleanup(w),
                     CompressError(OSErrorStr), <<>>, "c_return")
            \/ /\ fs' = Created(fs, w, p, uploads[w][1])
               /\ input_path' = [input_path EXCEPT ![w] = p]
               /\ pc' = [pc EXCEPT ![w] = "c_output"]
               /\ UNCHANGED <<input_paths, output_path, output_compress_path, exc, ret>>
    /\ UNCHANGED <<request, proc, calls, response>>

\* with NamedTemporaryFile(suffix="_gs.pdf") as output_file: output_path = name
compress_output(w) ==
    /\ pc[w] = "c_output"
    /\ \/ Leave(w, fs, compress_cleanup(w), CompressError(OSErrorStr), <<>>, "c_return")
       \/ \E p \in NamedTemporaryFile("_gs.pdf") :
            /\ fs' = Created(fs, w, p, <<>>)
            /\ output_path' = [output_path EXCEPT ![w] = p]
            /\ pc' = [pc EXCEPT ![w] = "c_output_compress"]
            /\ UNCHANGED <<input_path, input_paths, output_compress_path, exc, ret>>
    /\ UNCHANGED <<request, proc, calls, response>>

\* with NamedTemporaryFile(suffix="_qpdf.pdf"): output_compress_path = name;
\* then the gs command is built and subprocess.run starts gs
compress_output_compress(w) ==
    /\ pc[w] = "c_output_compress"
    /\ \/ /\ Leave(w, fs, compress_cleanup(w), CompressError(OSErrorStr), <<>>, "c_return")
          /\ UNCHANGED <<proc, calls>>
       \/ \E p \in NamedTemporaryFile("_qpdf.pdf") :
            /\ fs' = Created(fs, w, p, <<>>)
            /\ output_compress_path' = [output_compress_path EXCEPT ![w] = p]
            /\ Started(w, gs_cmd(accepted_quality(quality[w]), input_path[w], output_path[w]))
            /\ pc' = [pc EXCEPT ![w] = "c_gs"]
            /\ UNCHANGED <<input_path, input_paths, output_path, exc, ret>>
    /\ UNCHANGED <<request, response>>

\* gs exits, having written its output file if it exits with 0: the
\* returncode check, then subprocess.run starts qpdf
compress_gs_exit(w) ==
    /\ pc[w] = "c_gs"
    /\ \E rc \in Returncodes :
        /\ CanExit(fs, proc[w], rc)
        /\ LET out == IF rc = 0 THEN Gs(proc[w].preset, fs[proc[w].inputs[1]].data)
                                ELSE <<>>
               f == IF rc = 0 THEN Written(fs, w, proc[w].output, out) ELSE fs
           IN IF Failed(rc)
              THEN /\ Ended(w, ExitStatus(rc), out)
                   /\ \E err \in Stderrs :
                        Leave(w, f, compress_cleanup(w),
                              CompressError("Error to compress file: " \o err), <<>>,
                              "c_return")
              ELSE /\ fs' = f
                   /\ proc' = [proc EXCEPT ![w] =
                            qpdf_cmd(output_path[w], output_compress_path[w])]
                   /\ calls' = [calls EXCEPT ![w] =
                            Append(EndOf(@, ExitStatus(rc), out), Call("qpdf"))]
                   /\ pc' = [pc EXCEPT ![w] = "c_qpdf"]
                   /\ UNCHANGED <<locals, exc, ret>>
    /\ UNCHANGED <<request, response>>

\* except subprocess.TimeoutExpired (gs; subprocess.run has killed the child)
compress_gs_timeout(w) ==
    /\ pc[w] = "c_gs"
    /\ TimeoutArmed(w)
    /\ Ended(w, "timeout", <<>>)
    /\ Leave(w, fs, compress_cleanup(w),
             RuntimeError("Compression timeout: " \o TimeoutExpiredStr), <<>>, "c_return")
    /\ UNCHANGED <<request, response>>

compress_result_gs(w, f) == f[output_path[w]].data

\* with open(output_compress_path, "rb") as file: return file.read()
compress_result(w, f) == f[output_compress_path[w]].data

\* qpdf exits, having written its output file (possibly nothing) if it exits
\* with 0: the returncode check, then the output file is read and returned
compress_qpdf_exit(w) ==
    /\ pc[w] = "c_qpdf"
    /\ \E rc \in Returncodes :
        /\ CanExit(fs, proc[w], rc)
        /\ \E out \in IF rc = 0 THEN {Qpdf(fs[proc[w].inputs[1]].data), <<>>} ELSE {<<>>} :
            /\ Ended(w, ExitStatus(rc), out)
            /\ LET f == IF rc = 0 THEN Written(fs, w, proc[w].output, out) ELSE fs
               IN IF Failed(rc)
                  THEN \E err \in Stderrs :
                        Leave(w, f, compress_cleanup(w),
                              CompressError("Error to compress file: " \o err), <<>>,
                              "c_return")
                  ELSE Leave(w, f, compress_cleanup(w), NoExc, compress_result(w, f),
                             "c_return")
    /\ UNCHANGED <<request, response>>

compress_qpdf_timeout(w) ==
    /\ pc[w] = "c_qpdf"
    /\ TimeoutArmed(w)
    /\ Ended(w, "timeout", <<>>)
    /\ Leave(w, fs, compress_cleanup(w),
             RuntimeError("Compression timeout: " \o TimeoutExpiredStr), <<>>, "c_return")
    /\ UNCHANGED <<request, response>>

\* the rest of pdf_compressor after compress_pdf_tmp returned or raised
pdf_compressor_response(e, compressed_file, pdf_bytes, q) ==
    IF e.raised THEN HandlerExcept(e.msg)
    ELSE IF Empty(compressed_file)
    THEN HandlerRaise(500, "Compression did not generate any results")
    ELSE IF Len(pdf_bytes) = 0 THEN HandlerExcept("division by zero")
    ELSE [status |-> 200, detail |-> "", body |-> compressed_file, quality_level |-> q]

pdf_compressor_return(w) ==
    /\ pc[w] = "c_return"
    /\ response' = [response EXCEPT ![w] =
            pdf_compressor_response(exc[w], ret[w], uploads[w][1], quality[w])]
    /\ pc' = [pc EXCEPT ![w] = "done"]
    /\ UNCHANGED <<fs, request, locals, proc, exc, ret, calls>>

----------------------------------------------------------------------------
\* POST /pdf/merge

\* the first file whose content type is not application/pdf, or 0
FirstInvalid(cts) ==
    IF \E i \in 1..Len(cts) : cts[i] # PDF
    THEN CHOOSE i \in 1..Len(cts) : cts[i] # PDF /\ \A j \in 1..(i - 1) : cts[j] = PDF
    ELSE 0

\* the two validation checks, then the uploads are read
pdf_merge(w) ==
    /\ pc[w] = "idle"
    /\ \E n \in 1..MaxFiles : \E cts \in [1..n -> ContentTypes] :
        /\ endpoint' = [endpoint EXCEPT ![w] = "merge"]
        /\ IF n < 2
           THEN /\ response' = [response EXCEPT ![w] =
                        HandlerRaise(400, "At least 2 PDF files are required for merging.")]
                /\ pc' = [pc EXCEPT ![w] = "done"]
                /\ UNCHANGED uploads
           ELSE IF FirstInvalid(cts) # 0
           THEN /\ response' = [response EXCEPT ![w] =
                        HandlerRaise(400, "Invalid file type: " \o FileName(FirstInvalid(cts))
                                          \o " must be a PDF.")]
                /\ pc' = [pc EXCEPT ![w] = "done"]
                /\ UNCHANGED uploads
           ELSE /\ \E bytes_list \in UploadLists(n) :
                        uploads' = [uploads EXCEPT ![w] = bytes_list]
                /\ pc' = [pc EXCEPT ![w] = "m_input"]
                /\ UNCHANGED response
    /\ UNCHANGED <<fs, quality, locals, proc, exc, ret, calls>>

MergeSuffix(i) == "_" \o ToString(i) \o ".pdf"
MergeError(msg) == RuntimeError("Unexpected error during merge: " \o msg)

\* one iteration of: for i, pdf_bytes in enumerate(bytes_list)
merge_input(w) ==
    /\ pc[w] = "m_input"
    /\ LET i == Len(input_paths[w]) IN
       \/ Leave(w, fs, merge_cleanup(w), MergeError(OSErrorStr), <<>>, "m_return")
       \/ \E p \in NamedTemporaryFile(MergeSuffix(i)) :
            \/ Leave(w, Created(fs, w, p, <<>>), merge_cleanup(w),
                     MergeError(OSErrorStr), <<>>, "m_return")
            \/ /\ fs' = Created(fs, w, p, uploads[w][i + 1])
               /\ input_paths' = [input_paths EXCEPT ![w] = AppendPath(@, p)]
               /\ pc' = [pc EXCEPT ![w] =
                        IF i + 1 < Len(uploads[w]) THEN "m_input" ELSE "m_output"]
               /\ UNCHANGED <<input_path, output_path, output_compress_path, exc, ret>>
    /\ UNCHANGED <<request, proc, calls, response>>

\* with NamedTemporaryFile(suffix="_gs.pdf"): output_path = name; then the qpdf
\* command is built and subprocess.run starts qpdf
merge_output(w) ==
    /\ pc[w] = "m_output"
    /\ \/ /\ Leave(w, fs, merge_cleanup(w), MergeError(OSErrorStr), <<>>, "m_return")
          /\ UNCHANGED <<proc, calls>>
       \/ \E p \in NamedTemporaryFile("_gs.pdf") :
            /\ fs' = Created(fs, w, p, <<>>)
            /\ output_path' = [output_path EXCEPT ![w] = p]
            /\ Started(w, qpdf_merge_cmd(input_paths[w], p))
            /\ pc' = [pc EXCEPT ![w] = "m_qpdf"]
            /\ UNCHANGED <<input_path, input_paths, output_compress_path, exc, ret>>
    /\ UNCHANGED <<request, response>>

\* with open(output_path, "rb") as merged: return merged.read()
merge_result(w, f) == f[output_path[w]].data

\* qpdf exits, having written its output file (possibly nothing) if it exits
\* with 0: the returncode check, then the output file is read and returned
merge_qpdf_exit(w) ==
    /\ pc[w] = "m_qpdf"
    /\ \E rc \in Returncodes :
        /\ CanExit(fs, proc[w], rc)
        /\ \E out \in IF rc = 0 THEN {QpdfMerge(Contents(fs, proc[w].inputs)), <<>>}
                                ELSE {<<>>} :
            /\ Ended(w, ExitStatus(rc), out)
            /\ LET f == IF rc = 0 THEN Written(fs, w, proc[w].output, out) ELSE fs
               IN IF Failed(rc)
                  THEN \E err \in Stderrs :
                        Leave(w, f, merge_cleanup(w),
                              MergeError("Error merging PDFs: " \o err), <<>>, "m_return")
                  ELSE Leave(w, f, merge_cleanup(w), NoExc, merge_result(w, f),
                             "m_return")
    /\ UNCHANGED <<request, response>>

\* except subprocess.TimeoutExpired
merge_qpdf_timeout(w) ==
    /\ pc[w] = "m_qpdf"
    /\ TimeoutArmed(w)
    /\ Ended(w, "timeout", <<>>)
    /\ Leave(w, fs, merge_cleanup(w), RuntimeError("Merge operation timed out"), <<>>,
             "m_return")
    /\ UNCHANGED <<request, response>>

\* the rest of pdf_merge after merge_pdf returned or raised
pdf_merge_response(e, merged_file) ==
    IF e.raised THEN HandlerExcept(e.msg)
    ELSE IF Empty(merged_file) THEN HandlerRaise(500, "Merge did not generate any results")
    ELSE [status |-> 200, detail |-> "", body |-> merged_file, quality_level |-> ""]

pdf_merge_return(w) ==
    /\ pc[w] = "m_return"
    /\ response' = [response EXCEPT ![w] = pdf_merge_response(exc[w], ret[w])]
    /\ pc' = [pc EXCEPT ![w] = "done"]
    /\ UNCHANGED <<fs, request, locals, proc, exc, ret, calls>>

----------------------------------------------------------------------------
\* FileService.compress_pdf_buffer, called directly (no handler uses it)

\* Popen(gs_cmd, stdin=PIPE, stdout=PIPE, stderr=PIPE)
compress_pdf_buffer(w) ==
    /\ pc[w] = "idle"
    /\ endpoint' = [endpoint EXCEPT ![w] = "buffer"]
    /\ \E preset \in Presets, pdf_bytes \in Uploads :
        /\ quality' = [quality EXCEPT ![w] = preset]
        /\ uploads' = [uploads EXCEPT ![w] = <<pdf_bytes>>]
        /\ Started(w, gs_buffer_cmd(preset))
    /\ pc' = [pc EXCEPT ![w] = "b_gs"]
    /\ UNCHANGED <<fs, locals, exc, ret, response>>

\* communicate() returns what gs wrote to stdout (possibly nothing): the
\* returncode and output checks
buffer_gs_exit(w) ==
    /\ pc[w] = "b_gs"
    /\ \E rc \in Returncodes :
        /\ \E gs_output \in IF rc = 0 THEN {Gs(proc[w].preset, uploads[w][1]), <<>>}
                                      ELSE {<<>>} :
            /\ Ended(w, ExitStatus(rc), gs_output)
            /\ IF Failed(rc)
               THEN /\ \E err \in Stderrs :
                        exc' = [exc EXCEPT ![w] =
                            CompressError("Error to compress file: " \o err)]
                    /\ UNCHANGED ret
               ELSE IF Empty(gs_output)
               THEN /\ exc' = [exc EXCEPT ![w] =
                        CompressError("Compression failed: no output generated")]
                    /\ UNCHANGED ret
               ELSE /\ ret' = [ret EXCEPT ![w] = gs_output]
                    /\ UNCHANGED exc
    /\ pc' = [pc EXCEPT ![w] = "done"]
    /\ UNCHANGED <<fs, request, locals, response>>

\* except subprocess.TimeoutExpired: kill, wait, raise
buffer_gs_timeout(w) ==
    /\ pc[w] = "b_gs"
    /\ TimeoutArmed(w)
    /\ Ended(w, "timeout", <<>>)
    /\ exc' = [exc EXCEPT ![w] = RuntimeError("Compression took too long")]
    /\ pc' = [pc EXCEPT ![w] = "done"]
    /\ UNCHANGED <<fs, request, locals, ret, response>>

----------------------------------------------------------------------------
\* A child process exits on its own (or never does).
Exit(w) ==
    \/ compress_gs_exit(w)
    \/ compress_qpdf_exit(w)
    \/ merge_qpdf_exit(w)
    \/ buffer_gs_exit(w)

\* A request or call arrives.
Arrive(w) ==
    \/ pdf_compressor(w)
    \/ pdf_merge(w)
    \/ compress_pdf_buffer(w)

\* The steps the worker takes by itself, the timeouts included.
Run(w) ==
    \/ compress_input(w)
    \/ compress_output(w)
    \/ compress_output_compress(w)
    \/ compress_gs_timeout(w)
    \/ compress_qpdf_timeout(w)
    \/ pdf_compressor_return(w)
    \/ merge_input(w)
    \/ merge_output(w)
    \/ merge_qpdf_timeout(w)
    \/ pdf_merge_return(w)
    \/ buffer_gs_timeout(w)

Next == \E w \in Workers : Arrive(w) \/ Run(w) \/ Exit(w)

Spec == Init /\ [][Next]_vars

FairSpec == Spec /\ \A w \in Workers : WF_vars(Run(w))

----------------------------------------------------------------------------
\* Properties

Range(q) == {q[i] : i \in 1..Len(q)}

\* The temp files worker w created that are still in the directory.
Owned(w) == {p \in DOMAIN fs : fs[p].owner = w}

\* compress_pdf_tmp or merge_pdf was called and has returned or raised.
Left(w) ==
    /\ endpoint[w] \in {"compress", "merge"}
    /\ pc[w] \in {"c_return", "m_return", "done"}
    /\ uploads[w] # <<>>

\* The handler has answered the request.
Answered(w) == endpoint[w] \in {"compress", "merge"} /\ pc[w] = "done"

\* The request was rejected by the upload validation (nothing was read).
Rejected(w) == Answered(w) /\ uploads[w] = <<>>

LastCall(w) == calls[w][Len(calls[w])]
ToolFailed(w) == calls[w] # <<>> /\ LastCall(w).st \in {"fail", "timeout"}
AllOk(w) == calls[w] # <<>> /\ \A i \in 1..Len(calls[w]) : calls[w][i].st = "ok"
FinalOutputEmpty(w) == AllOk(w) /\ LastCall(w).out = <<>>

C2_NoLeak == \A w \in Workers : Left(w) => Owned(w) = {}

\* C3: a tool exiting non-zero, a tool timing out and an empty final output each
\* end the request with an error response with a non-empty detail; a 200 response
\* is given only when every tool exited with 0 and the final output is not empty.
C3_FailuresAreErrors ==
    \A w \in Workers : Answered(w) =>
        /\ (ToolFailed(w) \/ FinalOutputEmpty(w)) =>
                /\ response[w].status >= 400
                /\ response[w].detail # ""
                /\ response[w].body = <<>>
        /\ response[w].status = 200 =>
                /\ AllOk(w)
                /\ LastCall(w).out # <<>>
                /\ response[w].body # <<>>

\* an empty final output on compress, a failed tool with empty stderr on merge
C3_Witness ==
    \E w1, w2 \in Workers :
        /\ Answered(w1) /\ endpoint[w1] = "compress" /\ FinalOutputEmpty(w1)
        /\ Answered(w2) /\ endpoint[w2] = "merge"
        /\ Len(calls[w2]) = 1 /\ calls[w2][1].st = "fail"
        /\ response[w2].detail = "Unexpected error during merge: Error merging PDFs: "

\* The temp-file paths a call holds in its locals.
Held(w) ==
    ({input_path[w], output_path[w], output_compress_path[w]} \cup Range(input_paths[w]))
        \ {None}
NumHeld(w) ==
    Len(input_paths[w])
    + (IF input_path[w] # None THEN 1 ELSE 0)
    + (IF output_path[w] # None THEN 1 ELSE 0)
    + (IF output_compress_path[w] # None THEN 1 ELSE 0)

\* What a request's tools make of its own uploads.
Expected(w) ==
    IF endpoint[w] = "compress"
    THEN Qpdf(Gs(accepted_quality(quality[w]), uploads[w][1]))
    ELSE QpdfMerge(uploads[w])

\* C4: the paths held by two calls in flight are disjoint and those of one call
\* are pairwise distinct; every held file is there and is the call's own; the
\* bytes a request returns are those its tools make of its own uploads.
C4_PathsDisjoint ==
    \A w \in Workers :
        /\ Cardinality(Held(w)) = NumHeld(w)
        /\ \A p \in Held(w) : p \in DOMAIN fs /\ fs[p].owner = w
        /\ \A v \in Workers \ {w} : Held(w) \cap Held(v) = {}
        /\ (Answered(w) /\ response[w].status = 200) => response[w].body = Expected(w)

\* a compress and a merge call in flight, both holding a "_gs.pdf" output file
C4_Witness ==
    \E w1, w2 \in Workers :
        /\ pc[w1] = "c_qpdf" /\ pc[w2] = "m_qpdf"
        /\ output_path[w1][2] = "_gs.pdf" /\ output_path[w2][2] = "_gs.pdf"

\* No request or call is being served and no child process is waited for.
Quiet == \A w \in Workers : pc[w] \in {"idle", "done"} /\ proc[w] = NoCmd

\* C5: every wait for a child process is ended by its exit or by the timeout, so
\* every request or call that was started is eventually finished, for good: from
\* some point on each worker is either done or was never given a request.
C5_EveryRequestFinishes == <>[]Quiet

\* a request finished by the timeout of its tool
C5_Witness ==
    \E w \in Workers : pc[w] = "done" /\ calls[w] # <<>> /\ LastCall(w).st = "timeout"

\* C6 as stated: every successful request has run exactly two tools, the second
\* after the first exited with 0, and answers with the output of the second.
C6_TwoToolsOnBothEndpoints ==
    \A w \in Workers : (Answered(w) /\ response[w].status = 200) =>
        /\ Len(calls[w]) = 2
        /\ calls[w][1].st = "ok" /\ calls[w][2].st = "ok"
        /\ response[w].body = calls[w][2].out

\* C6 amended: a successful compress request has run gs and then qpdf, qpdf
\* started only after gs exited with 0, and answers with the output of qpdf; a
\* successful merge request has run qpdf alone and answers with its output.
C6_ToolsPerEndpoint ==
    \A w \in Workers :
        /\ Len(calls[w]) >= 2 => calls[w][1].st = "ok"
        /\ (Answered(w) /\ response[w].status = 200) =>
            IF endpoint[w] = "compress"
            THEN /\ Len(calls[w]) = 2
                 /\ calls[w][1].tool = "gs" /\ calls[w][1].st = "ok"
                 /\ calls[w][2].tool = "qpdf" /\ calls[w][2].st = "ok"
                 /\ response[w].body = calls[w][2].out
            ELSE /\ Len(calls[w]) = 1
                 /\ calls[w][1].tool = "qpdf" /\ calls[w][1].st = "ok"
                 /\ response[w].body = calls[w][1].out

\* a successful compress request and a successful merge request
C6_Witness ==
    \E w1, w2 \in Workers :
        /\ Answered(w1) /\ endpoint[w1] = "compress" /\ response[w1].status = 200
        /\ Answered(w2) /\ endpoint[w2] = "merge" /\ response[w2].status = 200

\* C7: no retry: a call starts a further process only after all earlier ones
\* exited with 0, runs each tool at most once, and once a tool has failed or
\* timed out the service method is left with no process running.
C7_NoRetry ==
    \A w \in Workers :
        /\ \A i \in 1..(Len(calls[w]) - 1) : calls[w][i].st = "ok"
        /\ \A i, j \in 1..Len(calls[w]) : i # j => calls[w][i].tool # calls[w][j].tool
        /\ ToolFailed(w) => (proc[w] = NoCmd /\ pc[w] \in {"c_return", "m_return", "done"})

\* a compress request answered after gs failed (qpdf never ran), beside one whose
\* gs timed out
C7_Witness ==
    \E w1, w2 \in Workers :
        /\ Answered(w1) /\ endpoint[w1] = "compress"
        /\ Len(calls[w1]) = 1 /\ calls[w1][1].st = "fail"
        /\ Answered(w2) /\ endpoint[w2] = "compress"
        /\ Len(calls[w2]) = 1 /\ calls[w2][1].st = "timeout"

\* C8: a request rejected by the upload validation is answered with status 400.
C8_RejectedWith400 ==
    \A w \in Workers : Rejected(w) => response[w].status = 400

Strength(q) == CASE q = "extreme" -> 3 [] q = "normal" -> 2 [] q = "low" -> 1

GsSettings(q) ==
    CASE q = "extreme" -> <<"screen", 150, 72, 72>>
      [] q = "normal" -> <<"ebook", 300, 96, 96>>
      [] q = "low" -> <<"printer", 600, 150, 150>>

\* C9: gs is given the preset and the mono / colour / grey resolutions of the
\* requested level (extreme: /screen 150/72/72, normal: /ebook 300/96/96, low:
\* /printer 600/150/150), a stronger level never a higher resolution than a
\* weaker one, and X-Quality-Level echoes the requested level.
C9_QualitySettings ==
    \A w \in Workers : endpoint[w] = "compress" =>
        /\ pc[w] = "c_gs" =>
            /\ <<proc[w].preset, proc[w].mono, proc[w].color, proc[w].gray>>
                    = GsSettings(quality[w])
            /\ \A v \in Workers :
                (endpoint[v] = "compress" /\ pc[v] = "c_gs"
                    /\ Strength(quality[w]) >= Strength(quality[v])) =>
                        /\ proc[w].mono <= proc[v].mono
                        /\ proc[w].color <= proc[v].color
                        /\ proc[w].gray <= proc[v].gray
        /\ response[w].status = 200 => response[w].quality_level = quality[w]

\* gs running at the extreme level beside a successful request at the low level
C9_Witness ==
    \E w1, w2 \in Workers :
        /\ endpoint[w1] = "compress" /\ pc[w1] = "c_gs" /\ quality[w1] = "extreme"
        /\ endpoint[w2] = "compress" /\ response[w2].status = 200 /\ quality[w2] = "low"

\* C10: when merge_pdf runs qpdf on n uploads, it has created n input files and
\* one output file, the i-th input file holds the bytes of the i-th upload, and
\* qpdf is given the n input paths in upload order and then one output path that
\* is none of them.
C10_MergeInputsInOrder ==
    \A w \in Workers : pc[w] = "m_qpdf" =>
        LET pages == proc[w].inputs
            n == Len(uploads[w])
        IN /\ Len(pages) = n
           /\ \A i \in 1..n : pages[i] \in DOMAIN fs /\ fs[pages[i]].data = uploads[w][i]
           /\ \A i, j \in 1..n : i # j => pages[i] # pages[j]
           /\ proc[w].output # None
           /\ proc[w].output \notin Range(pages)
           /\ Owned(w) = Range(pages) \cup {proc[w].output}
           /\ Cardinality(Owned(w)) = n + 1

\* qpdf running on a merge of different files
C10_Witness ==
    \E w \in Workers :
        /\ pc[w] = "m_qpdf"
        /\ Len(uploads[w]) >= 2
        /\ uploads[w][1] # uploads[w][2]
        /\ uploads[w][1] # <<>>
====
